---------------------------- MODULE Spec2Model ----------------------------
(***************************************************************************)
(* A model of mysqlite (src/src/main.rs): the row codec, the pager, the    *)
(* table and the session loop `run`.                                       *)
(*                                                                         *)
(* Representation of data.                                                 *)
(*  - A byte array ([u8; N], a page buffer, the content of the file) is    *)
(*    the function from the offsets (from 0) that hold a nonzero byte to   *)
(*    that byte; every other offset reads as 0.  Two arrays of the same    *)
(*    length are equal byte for byte exactly when these functions are      *)
(*    equal.                                                               *)
(*  - A text (an input line, an output line, a field of a line) is the     *)
(*    sequence of its bytes.                                               *)
(*  - A u32 is the pair <<hi, lo>> of its two 16-bit halves, because the   *)
(*    model checker's integers stop short of 2^32.                         *)
(***************************************************************************)
EXTENDS Integers, Sequences, FiniteSets, TLC

(***************************************************************************)
(* Program constants.                                                      *)
(***************************************************************************)
ID_SIZE == 4
USERNAME_SIZE == 32
EMAIL_SIZE == 255
Row_SIZE == ID_SIZE + USERNAME_SIZE + EMAIL_SIZE
Pager_SIZE == 4096
ROWS_PER_PAGE == Pager_SIZE \div Row_SIZE

(***************************************************************************)
(* Bounds of the model.                                                    *)
(***************************************************************************)
\* rows a table holds at most, under Spec
MaxRows == 17
\* sessions (calls of run) over the file, under Spec
MaxSessions == 2
\* rows the first session inserts at most, under SpecDeep
DeepRows == 197
\* sessions under SpecDeep
DeepSessions == 2
\* the parts into which the bytes of a failing write_all are divided
PartsOf == 2
\* rows a table holds at most, under SpecIo
IoRows == 15
\* sessions under SpecIo
IoSessions == 2

(***************************************************************************)
(* Byte arrays.                                                            *)
(***************************************************************************)
EmptyBytes == [i \in {} |-> 0]

\* array[i]
Get(a, i) == IF i \in DOMAIN a THEN a[i] ELSE 0

\* the array holding the bytes of the sequence s
FromSeq(s) == [i \in {j \in 0..(Len(s) - 1) : s[j + 1] # 0} |-> s[i + 1]]

\* &a[from .. from + n]
Slice(a, from, n) ==
    [i \in {d - from : d \in {x \in DOMAIN a : x >= from /\ x < from + n}} |-> a[i + from]]

\* a[at .. at + n].copy_from_slice(b), b an array of n bytes
CopyFromSlice(a, at, n, b) ==
    [i \in {x \in DOMAIN a : x < at \/ x >= at + n} \cup {d + at : d \in DOMAIN b}
        |-> IF i >= at /\ i < at + n THEN b[i - at] ELSE a[i]]

\* the first n bytes of a as a sequence
ToSeq(a, n) == [i \in 1..n |-> Get(a, i - 1)]

Min2(a, b) == IF a < b THEN a ELSE b
Max2(a, b) == IF a > b THEN a ELSE b
DivCeil(a, b) == (a + b - 1) \div b
SaturatingSub(a, b) == IF a > b THEN a - b ELSE 0

(***************************************************************************)
(* u32 as <<hi, lo>>.                                                      *)
(***************************************************************************)
\* faulty variant: the bytes of the id in big-endian order
ToBeBytes(id) == <<id[1] \div 256, id[1] % 256, id[2] \div 256, id[2] % 256>>

\* u32::to_le_bytes
ToLeBytes(id) == <<id[2] % 256, id[2] \div 256, id[1] % 256, id[1] \div 256>>

\* u32::from_le_bytes of the 4 bytes of page at off
FromLeBytes(page, off) ==
    << Get(page, off + 2) + 256 * Get(page, off + 3),
       Get(page, off) + 256 * Get(page, off + 1) >>

IsDigit(b) == b >= 48 /\ b <= 57

RECURSIVE ParseDigits(_, _, _)
\* the digit loop of u32::from_str_radix(.., 10): checked_mul then checked_add
ParseDigits(s, i, acc) ==
    IF i > Len(s) THEN [ok |-> TRUE, val |-> acc]
    ELSE IF ~IsDigit(s[i]) THEN [ok |-> FALSE, val |-> <<0, 0>>]
    ELSE LET lo10 == acc[2] * 10 + (s[i] - 48)
             hi10 == acc[1] * 10 + (lo10 \div 65536)
         IN IF hi10 > 65535 THEN [ok |-> FALSE, val |-> <<0, 0>>]
            ELSE ParseDigits(s, i + 1, <<hi10, lo10 % 65536>>)

\* str::parse::<u32>(): an optional '+', then one or more decimal digits, no overflow
ParseU32(s) ==
    IF Len(s) = 0 THEN [ok |-> FALSE, val |-> <<0, 0>>]
    ELSE IF s = <<43>> \/ s = <<45>> THEN [ok |-> FALSE, val |-> <<0, 0>>]
    ELSE IF s[1] = 43 THEN ParseDigits(s, 2, <<0, 0>>)
    ELSE ParseDigits(s, 1, <<0, 0>>)

RECURSIVE U32ToDec(_)
\* Display for u32: the decimal digits
U32ToDec(id) ==
    LET t == (id[1] % 10) * 65536 + id[2]
    IN IF id[1] = 0 /\ id[2] < 10 THEN <<48 + id[2]>>
       ELSE Append(U32ToDec(<<id[1] \div 10, t \div 10>>), 48 + (t % 10))

(***************************************************************************)
(* Row.                                                                    *)
(***************************************************************************)
\* the least member of a nonempty set of integers
MinOf(S) == CHOOSE x \in S : \A y \in S : x <= y

RECURSIVE Utf8Ok(_, _)
\* std::str::from_utf8(s).is_ok(), from byte i on
Utf8Ok(s, i) ==
    IF \A k \in i..Len(s) : s[k] < 128 THEN TRUE
    ELSE LET j == MinOf({k \in i..Len(s) : s[k] >= 128})
             b == s[j]
             Cont(k) == k <= Len(s) /\ s[k] >= 128 /\ s[k] <= 191
             In(k, lo, hi) == k <= Len(s) /\ s[k] >= lo /\ s[k] <= hi
         IN IF b >= 194 /\ b <= 223 THEN Cont(j + 1) /\ Utf8Ok(s, j + 2)
            ELSE IF b = 224 THEN In(j + 1, 160, 191) /\ Cont(j + 2) /\ Utf8Ok(s, j + 3)
            ELSE IF b = 237 THEN In(j + 1, 128, 159) /\ Cont(j + 2) /\ Utf8Ok(s, j + 3)
            ELSE IF b >= 225 /\ b <= 239 THEN Cont(j + 1) /\ Cont(j + 2) /\ Utf8Ok(s, j + 3)
            ELSE IF b = 240 THEN In(j + 1, 144, 191) /\ Cont(j + 2) /\ Cont(j + 3) /\ Utf8Ok(s, j + 4)
            ELSE IF b = 244 THEN In(j + 1, 128, 143) /\ Cont(j + 2) /\ Cont(j + 3) /\ Utf8Ok(s, j + 4)
            ELSE IF b >= 241 /\ b <= 243 THEN Cont(j + 1) /\ Cont(j + 2) /\ Cont(j + 3) /\ Utf8Ok(s, j + 4)
            ELSE FALSE

\* "<Invalid utf-8>"
InvalidUtf8 == <<60, 73, 110, 118, 97, 108, 105, 100, 32, 117, 116, 102, 45, 56, 62>>

\* the least offset below n where the array reads 0, or n
FirstZero(a, n) ==
    CHOOSE i \in 0..n : /\ i = n \/ i \notin DOMAIN a
                        /\ \A j \in 0..(i - 1) : j \in DOMAIN a

\* Row::bytes_to_str on an array of n bytes
bytes_to_str(a, n) ==
    LET s == ToSeq(a, FirstZero(a, n))
    IN IF Utf8Ok(s, 1) THEN s ELSE InvalidUtf8

username_str(row) == bytes_to_str(row.username, USERNAME_SIZE)
email_str(row) == bytes_to_str(row.email, EMAIL_SIZE)

\* impl Display for Row: "({} {} {})"
Display(row) ==
    <<40>> \o U32ToDec(row.id) \o <<32>> \o username_str(row) \o <<32>> \o email_str(row) \o <<41>>

\* char::is_whitespace, on the one-byte characters
IsWs(b) == b \in {9, 10, 11, 12, 13, 32}

\* the least index i >= from with IsWs(s[i]) = ws, or Len(s) + 1
Scan(s, from, ws) ==
    CHOOSE i \in from..(Len(s) + 1) : /\ i = Len(s) + 1 \/ IsWs(s[i]) = ws
                                      /\ \A j \in from..(i - 1) : IsWs(s[j]) # ws

\* SplitWhitespace::next on the rest s of the text
NextPart(s) ==
    LET b == Scan(s, 1, FALSE)
        e == Scan(s, b, TRUE)
    IN IF b > Len(s) THEN [some |-> FALSE, tok |-> <<>>, rest |-> <<>>]
       ELSE [some |-> TRUE, tok |-> SubSeq(s, b, e - 1), rest |-> SubSeq(s, e, Len(s))]

NoRow == [id |-> <<0, 0>>, username |-> EmptyBytes, email |-> EmptyBytes]
ParseErr(e) == [ok |-> FALSE, err |-> e, row |-> NoRow]

\* faulty variant: from_str with the username check one byte short (>= for >)
from_str_short_username(s) ==
    LET p1 == NextPart(s)
        id == ParseU32(p1.tok)
        p2 == NextPart(p1.rest)
        p3 == NextPart(p2.rest)
    IN IF ~p1.some THEN ParseErr("SyntaxError")
       ELSE IF ~id.ok THEN ParseErr("SyntaxError")
       ELSE IF ~p2.some THEN ParseErr("SyntaxError")
       ELSE IF Len(p2.tok) >= USERNAME_SIZE THEN ParseErr("StringTooLong")
       ELSE IF ~p3.some THEN ParseErr("SyntaxError")
       ELSE IF Len(p3.tok) > EMAIL_SIZE THEN ParseErr("StringTooLong")
       ELSE [ok |-> TRUE, err |-> "none",
             row |-> [id |-> id.val,
                      username |-> FromSeq(p2.tok),
                      email |-> FromSeq(p3.tok)]]

\* faulty variant: from_str that takes an id it cannot parse for 0 (unwrap_or_default)
from_str_default_id(s) ==
    LET p1 == NextPart(s)
        id == ParseU32(p1.tok)
        p2 == NextPart(p1.rest)
        p3 == NextPart(p2.rest)
    IN IF ~p1.some THEN ParseErr("SyntaxError")
       ELSE IF ~p2.some THEN ParseErr("SyntaxError")
       ELSE IF Len(p2.tok) > USERNAME_SIZE THEN ParseErr("StringTooLong")
       ELSE IF ~p3.some THEN ParseErr("SyntaxError")
       ELSE IF Len(p3.tok) > EMAIL_SIZE THEN ParseErr("StringTooLong")
       ELSE [ok |-> TRUE, err |-> "none",
             row |-> [id |-> id.val,
                      username |-> FromSeq(p2.tok),
                      email |-> FromSeq(p3.tok)]]

\* <Row as FromStr>::from_str
from_str(s) ==
    LET p1 == NextPart(s)
        id == ParseU32(p1.tok)
        p2 == NextPart(p1.rest)
        p3 == NextPart(p2.rest)
    IN IF ~p1.some THEN ParseErr("SyntaxError")
       ELSE IF ~id.ok THEN ParseErr("SyntaxError")
       ELSE IF ~p2.some THEN ParseErr("SyntaxError")
       ELSE IF Len(p2.tok) > USERNAME_SIZE THEN ParseErr("StringTooLong")
       ELSE IF ~p3.some THEN ParseErr("SyntaxError")
       ELSE IF Len(p3.tok) > EMAIL_SIZE THEN ParseErr("StringTooLong")
       ELSE [ok |-> TRUE, err |-> "none",
             row |-> [id |-> id.val,
                      username |-> FromSeq(p2.tok),
                      email |-> FromSeq(p3.tok)]]

\* the 291 bytes of a row: id, then username, then email (Table::insert's three copies)
EncodeRow(row) ==
    CopyFromSlice(
        CopyFromSlice(FromSeq(ToLeBytes(row.id)), ID_SIZE, USERNAME_SIZE, row.username),
        ID_SIZE + USERNAME_SIZE, EMAIL_SIZE, row.email)

(***************************************************************************)
(* Pager.  pages is the Vec<Option<Box<[u8; 4096]>>>: a sequence, entry    *)
(* index + 1 for page index; pos is the position of the file handle; a     *)
(* file is [len, data].                                                    *)
(***************************************************************************)
None == [some |-> FALSE, buf |-> EmptyBytes]
Some(b) == [some |-> TRUE, buf |-> b]

\* faulty variant: Pager::new that reads every page of the file at once
PagerNewEager(file) ==
    [i \in 1..DivCeil(file.len, Pager_SIZE) |->
        [some |-> TRUE,
         buf |-> Slice(file.data, (i - 1) * Pager_SIZE,
                       Min2(Pager_SIZE, file.len - (i - 1) * Pager_SIZE))]]

\* vec![None; page_count] of Pager::new
PagerNew(file) == [i \in 1..DivCeil(file.len, Pager_SIZE) |-> None]

\* self.pages.resize(n, None) for n > len
Resize(pages, n) == pages \o [i \in 1..(n - Len(pages)) |-> None]

(***************************************************************************)
(* I/O failures.  io is what the calls on the file do from here on: calls  *)
(* is the number of them that succeed before one returns an error (-1:     *)
(* none does), part is how much of its buffer a failing write_all wrote    *)
(* before it failed, in units of 1/PartsOf.                                *)
(***************************************************************************)
NoFault == [calls |-> -1, part |-> 0]
Fails(io) == io.calls = 0
Spend(io) == IF io.calls > 0 THEN [io EXCEPT !.calls = @ - 1] ELSE io
\* the calls get_page makes on the file at most: metadata(), read_exact()
GetPageCalls == 2

\* faulty variant: get_page without the is_none test: the page is built anew on every call
get_page_reload(pages, pos, file, page_num, io) ==
    LET grown == IF page_num >= Len(pages) THEN Resize(pages, page_num + 1) ELSE pages
        file_length == file.len
        num_pages == DivCeil(file_length, Pager_SIZE)
        offset == page_num * Pager_SIZE
        bytes_to_read == Min2(Pager_SIZE, SaturatingSub(file_length, offset))
    IN IF Fails(io)
       THEN [err |-> TRUE, pages |-> grown, pos |-> pos, io |-> io]
       ELSE IF page_num < num_pages
       THEN IF Fails(Spend(io))
            THEN [err |-> TRUE, pages |-> grown, pos |-> pos, io |-> Spend(io)]
            ELSE IF pos + bytes_to_read > file_length
            THEN [err |-> TRUE, pages |-> grown, pos |-> Max2(pos, file_length),
                  io |-> Spend(Spend(io))]
            ELSE [err |-> FALSE,
                  pages |-> [grown EXCEPT ![page_num + 1] =
                                Some(Slice(file.data, pos, bytes_to_read))],
                  pos |-> pos + bytes_to_read, io |-> Spend(Spend(io))]
       ELSE [err |-> FALSE,
             pages |-> [grown EXCEPT ![page_num + 1] = Some(EmptyBytes)],
             pos |-> pos, io |-> Spend(io)]

\* Pager::get_page: the pager after the call, and whether it failed. The read is
\* File::read_exact on the handle, so it starts at the handle's position. The
\* calls on the file are metadata() and read_exact(); each returns its error
\* through ? before the page is stored.
get_page(pages, pos, file, page_num, io) ==
    LET grown == IF page_num >= Len(pages) THEN Resize(pages, page_num + 1) ELSE pages
        file_length == file.len
        num_pages == DivCeil(file_length, Pager_SIZE)
        offset == page_num * Pager_SIZE
        bytes_to_read == Min2(Pager_SIZE, SaturatingSub(file_length, offset))
    IN IF grown[page_num + 1].some
       THEN [err |-> FALSE, pages |-> grown, pos |-> pos, io |-> io]
       ELSE IF Fails(io)
       THEN \* metadata()?
            [err |-> TRUE, pages |-> grown, pos |-> pos, io |-> io]
       ELSE IF page_num < num_pages
       THEN IF Fails(Spend(io))
            THEN \* read_exact()?: an I/O error (run returns on it and drops the
                 \* table, so where the handle is left does not show)
                 [err |-> TRUE, pages |-> grown, pos |-> pos, io |-> Spend(io)]
            ELSE IF pos + bytes_to_read > file_length
            THEN \* read_exact: UnexpectedEof, the handle left at the end of the file
                 [err |-> TRUE, pages |-> grown, pos |-> Max2(pos, file_length),
                  io |-> Spend(Spend(io))]
            ELSE [err |-> FALSE,
                  pages |-> [grown EXCEPT ![page_num + 1] =
                                Some(Slice(file.data, pos, bytes_to_read))],
                  pos |-> pos + bytes_to_read, io |-> Spend(Spend(io))]
       ELSE [err |-> FALSE,
             pages |-> [grown EXCEPT ![page_num + 1] = Some(EmptyBytes)],
             pos |-> pos, io |-> Spend(io)]

\* seek(Start(offset)) then write_all(&buf[..size])
WriteAt(file, offset, size, buf) ==
    [len |-> Max2(file.len, offset + size),
     data |-> CopyFromSlice(file.data, offset, size, Slice(buf, 0, size))]

\* the calls a close makes on the file, as its log records them
SeekCall(offset, ok) == [call |-> "seek", at |-> offset, size |-> 0, ok |-> ok]
WriteCall(offset, size, ok) == [call |-> "write_all", at |-> offset, size |-> size, ok |-> ok]
SyncCall(ok) == [call |-> "sync_all", at |-> 0, size |-> 0, ok |-> ok]

\* Pager::flush_page: the file after the call and the calls made on it; indexing
\* pages past its end panics; a write_all that fails has written some of its bytes
flush_page(pages, file, index, size, io) ==
    LET offset == index * Pager_SIZE
        written == (size * io.part) \div PartsOf
    IN IF index >= Len(pages) THEN [status |-> "panic", file |-> file, io |-> io, ops |-> <<>>]
       ELSE IF ~pages[index + 1].some
       THEN [status |-> "ok", file |-> file, io |-> io, ops |-> <<>>]
       ELSE IF Fails(io)
       THEN [status |-> "err", file |-> file, io |-> io, ops |-> <<SeekCall(offset, FALSE)>>]
       ELSE IF Fails(Spend(io))
       THEN [status |-> "err",
             file |-> WriteAt(file, offset, written, pages[index + 1].buf),
             io |-> Spend(io),
             ops |-> <<SeekCall(offset, TRUE), WriteCall(offset, size, FALSE)>>]
       ELSE [status |-> "ok",
             file |-> WriteAt(file, offset, size, pages[index + 1].buf),
             io |-> Spend(Spend(io)),
             ops |-> <<SeekCall(offset, TRUE), WriteCall(offset, size, TRUE)>>]

(***************************************************************************)
(* Table.                                                                  *)
(***************************************************************************)
\* Table::new: row_count
TableNewRowCount(file) == file.len \div Row_SIZE

\* faulty variant: insert that also writes the page it changed through to the file
insert_write_through(row_count, pages, pos, file, row, io) ==
    LET page_num == row_count \div ROWS_PER_PAGE
        row_offset == row_count % ROWS_PER_PAGE
        byte_offset == row_offset * Row_SIZE
        g == get_page(pages, pos, file, page_num, io)
        page == g.pages[page_num + 1].buf
        username_offset == byte_offset + ID_SIZE
        email_offset == username_offset + USERNAME_SIZE
        page1 == CopyFromSlice(page, byte_offset, ID_SIZE, FromSeq(ToLeBytes(row.id)))
        page2 == CopyFromSlice(page1, username_offset, USERNAME_SIZE, row.username)
        page3 == CopyFromSlice(page2, email_offset, EMAIL_SIZE, row.email)
    IN IF g.err
       THEN [err |-> TRUE, row_count |-> row_count, pages |-> g.pages, pos |-> g.pos,
             file |-> file]
       ELSE [err |-> FALSE, row_count |-> row_count + 1,
             pages |-> [g.pages EXCEPT ![page_num + 1] = Some(page3)], pos |-> g.pos,
             file |-> WriteAt(file, page_num * Pager_SIZE, byte_offset + Row_SIZE, page3)]

\* faulty variant: insert that counts the row before it asks for the page
insert_counts_first(row_count, pages, pos, file, row, io) ==
    LET page_num == row_count \div ROWS_PER_PAGE
        row_offset == row_count % ROWS_PER_PAGE
        byte_offset == row_offset * Row_SIZE
        g == get_page(pages, pos, file, page_num, io)
        page == g.pages[page_num + 1].buf
        username_offset == byte_offset + ID_SIZE
        email_offset == username_offset + USERNAME_SIZE
        page1 == CopyFromSlice(page, byte_offset, ID_SIZE, FromSeq(ToLeBytes(row.id)))
        page2 == CopyFromSlice(page1, username_offset, USERNAME_SIZE, row.username)
        page3 == CopyFromSlice(page2, email_offset, EMAIL_SIZE, row.email)
    IN IF g.err
       THEN [err |-> TRUE, row_count |-> row_count + 1, pages |-> g.pages, pos |-> g.pos,
             file |-> file]
       ELSE [err |-> FALSE, row_count |-> row_count + 1,
             pages |-> [g.pages EXCEPT ![page_num + 1] = Some(page3)], pos |-> g.pos,
             file |-> file]

\* faulty variant: insert that puts every row into the first slot of its page
insert_first_slot(row_count, pages, pos, file, row, io) ==
    LET page_num == row_count \div ROWS_PER_PAGE
        byte_offset == 0
        g == get_page(pages, pos, file, page_num, io)
        page == g.pages[page_num + 1].buf
        username_offset == byte_offset + ID_SIZE
        email_offset == username_offset + USERNAME_SIZE
        page1 == CopyFromSlice(page, byte_offset, ID_SIZE, FromSeq(ToLeBytes(row.id)))
        page2 == CopyFromSlice(page1, username_offset, USERNAME_SIZE, row.username)
        page3 == CopyFromSlice(page2, email_offset, EMAIL_SIZE, row.email)
    IN IF g.err
       THEN [err |-> TRUE, row_count |-> row_count, pages |-> g.pages, pos |-> g.pos,
             file |-> file]
       ELSE [err |-> FALSE, row_count |-> row_count + 1,
             pages |-> [g.pages EXCEPT ![page_num + 1] = Some(page3)], pos |-> g.pos,
             file |-> file]

\* Table::insert: the table and the file after the call (insert writes no file)
insert(row_count, pages, pos, file, row, io) ==
    LET page_num == row_count \div ROWS_PER_PAGE
        row_offset == row_count % ROWS_PER_PAGE
        byte_offset == row_offset * Row_SIZE
        g == get_page(pages, pos, file, page_num, io)
        page == g.pages[page_num + 1].buf
        username_offset == byte_offset + ID_SIZE
        email_offset == username_offset + USERNAME_SIZE
        page1 == CopyFromSlice(page, byte_offset, ID_SIZE, FromSeq(ToLeBytes(row.id)))
        page2 == CopyFromSlice(page1, username_offset, USERNAME_SIZE, row.username)
        page3 == CopyFromSlice(page2, email_offset, EMAIL_SIZE, row.email)
    IN IF g.err
       THEN [err |-> TRUE, row_count |-> row_count, pages |-> g.pages, pos |-> g.pos,
             file |-> file]
       ELSE [err |-> FALSE, row_count |-> row_count + 1,
             pages |-> [g.pages EXCEPT ![page_num + 1] = Some(page3)], pos |-> g.pos,
             file |-> file]

\* the Row that Table::deserialize_row builds from the page buffer
DecodeRow(page, byte_offset) ==
    [id |-> FromLeBytes(page, byte_offset),
     username |-> Slice(page, byte_offset + ID_SIZE, USERNAME_SIZE),
     email |-> Slice(page, byte_offset + ID_SIZE + USERNAME_SIZE, EMAIL_SIZE)]

\* Table::deserialize_row: the pager after the call and the row
deserialize_row(pages, pos, file, index, io) ==
    LET page_num == index \div ROWS_PER_PAGE
        row_offset == index % ROWS_PER_PAGE
        byte_offset == row_offset * Row_SIZE
        g == get_page(pages, pos, file, page_num, io)
    IN IF g.err
       THEN [err |-> TRUE, pages |-> g.pages, pos |-> g.pos, io |-> g.io, row |-> NoRow]
       ELSE [err |-> FALSE, pages |-> g.pages, pos |-> g.pos, io |-> g.io,
             row |-> DecodeRow(g.pages[page_num + 1].buf, byte_offset)]

RECURSIVE SelectFrom(_, _, _, _, _, _, _)
\* the loop of Table::select from row i on, i the first row of its page: the rows
\* i .. of that page (the first of them brings the page in, the others find it
\* loaded), then the later pages; the pager after the loop and the lines written
SelectFrom(i, row_count, pages, pos, file, lines, io) ==
    IF i >= row_count THEN [err |-> FALSE, pages |-> pages, pos |-> pos, lines |-> lines]
    ELSE LET d == deserialize_row(pages, pos, file, i, io)
             n == Min2(ROWS_PER_PAGE, row_count - i)
         IN IF d.err
            THEN [err |-> TRUE, pages |-> d.pages, pos |-> d.pos, lines |-> lines]
            ELSE SelectFrom(i + n, row_count, d.pages, d.pos, file,
                     lines \o [k \in 1..n |->
                         Display(deserialize_row(d.pages, d.pos, file, i + k - 1, d.io).row)],
                     d.io)

\* Table::select
select(row_count, pages, pos, file, io) ==
    SelectFrom(0, row_count, pages, pos, file, <<>>, io)

RECURSIVE FlushFull(_, _, _, _, _, _)
\* the loop of Table::close over the full pages i .. full_page_count - 1
FlushFull(i, full_page_count, pages, file, io, ops) ==
    IF i >= full_page_count THEN [status |-> "ok", file |-> file, io |-> io, ops |-> ops]
    ELSE IF i >= Len(pages) THEN [status |-> "panic", file |-> file, io |-> io, ops |-> ops]
    ELSE IF pages[i + 1].some
    THEN LET f == flush_page(pages, file, i, Pager_SIZE, io)
         IN IF f.status # "ok" THEN [f EXCEPT !.ops = ops \o f.ops]
            ELSE FlushFull(i + 1, full_page_count, pages, f.file, f.io, ops \o f.ops)
    ELSE FlushFull(i + 1, full_page_count, pages, file, io, ops)

\* faulty variant: close that flushes the trailing partial page at the full page size
close_whole_pages(row_count, pages, file, io) ==
    LET full_page_count == row_count \div ROWS_PER_PAGE
        full == FlushFull(0, full_page_count, pages, file, io, <<>>)
        additional_row_count == row_count % ROWS_PER_PAGE
        last_page == IF additional_row_count > 0
                     THEN flush_page(pages, full.file, full_page_count, Pager_SIZE, full.io)
                     ELSE [status |-> "ok", file |-> full.file, io |-> full.io, ops |-> <<>>]
        flushed == full.ops \o last_page.ops
    IN IF full.status # "ok" THEN [status |-> full.status, file |-> full.file, ops |-> full.ops]
       ELSE IF last_page.status # "ok"
       THEN [status |-> last_page.status, file |-> last_page.file, ops |-> flushed]
       ELSE IF Fails(last_page.io)
       THEN [status |-> "err", file |-> last_page.file, ops |-> Append(flushed, SyncCall(FALSE))]
       ELSE [status |-> "ok", file |-> last_page.file, ops |-> Append(flushed, SyncCall(TRUE))]

\* faulty variant: close that drops the error of the flush of the trailing page
close_unchecked(row_count, pages, file, io) ==
    LET full_page_count == row_count \div ROWS_PER_PAGE
        full == FlushFull(0, full_page_count, pages, file, io, <<>>)
        additional_row_count == row_count % ROWS_PER_PAGE
        last_page == IF additional_row_count > 0
                     THEN flush_page(pages, full.file, full_page_count,
                                     additional_row_count * Row_SIZE, full.io)
                     ELSE [status |-> "ok", file |-> full.file, io |-> full.io, ops |-> <<>>]
        flushed == full.ops \o last_page.ops
    IN IF full.status # "ok" THEN [status |-> full.status, file |-> full.file, ops |-> full.ops]
       ELSE IF last_page.status = "panic"
       THEN [status |-> last_page.status, file |-> last_page.file, ops |-> flushed]
       ELSE [status |-> "ok", file |-> last_page.file, ops |-> Append(flushed, SyncCall(TRUE))]

\* Table::close: the file after the call, the calls made on it and how the call ended
close(row_count, pages, file, io) ==
    LET full_page_count == row_count \div ROWS_PER_PAGE
        full == FlushFull(0, full_page_count, pages, file, io, <<>>)
        additional_row_count == row_count % ROWS_PER_PAGE
        last_page == IF additional_row_count > 0
                     THEN flush_page(pages, full.file, full_page_count,
                                     additional_row_count * Row_SIZE, full.io)
                     ELSE [status |-> "ok", file |-> full.file, io |-> full.io, ops |-> <<>>]
        flushed == full.ops \o last_page.ops
    IN IF full.status # "ok" THEN [status |-> full.status, file |-> full.file, ops |-> full.ops]
       ELSE IF last_page.status # "ok"
       THEN [status |-> last_page.status, file |-> last_page.file, ops |-> flushed]
       ELSE IF Fails(last_page.io)
       THEN [status |-> "err", file |-> last_page.file, ops |-> Append(flushed, SyncCall(FALSE))]
       ELSE [status |-> "ok", file |-> last_page.file, ops |-> Append(flushed, SyncCall(TRUE))]

(***************************************************************************)
(* Statements and the texts of the session.                                *)
(***************************************************************************)
kw_insert == <<105, 110, 115, 101, 114, 116>>
kw_select == <<115, 101, 108, 101, 99, 116>>
kw_exit == <<46, 101, 120, 105, 116>>
\* "Syntax error. Could not parse statement."
MsgSyntaxError == <<83, 121, 110, 116, 97, 120, 32, 101, 114, 114, 111, 114, 46, 32, 67, 111, 117, 108, 100, 32, 110, 111, 116, 32, 112, 97, 114, 115, 101, 32, 115, 116, 97, 116, 101, 109, 101, 110, 116, 46>>
\* "String is too long."
MsgStringTooLong == <<83, 116, 114, 105, 110, 103, 32, 105, 115, 32, 116, 111, 111, 32, 108, 111, 110, 103, 46>>
\* "Unrecognized keyword at start of '{command}'."
MsgUnrecognizedKeyword(command) == <<85, 110, 114, 101, 99, 111, 103, 110, 105, 122, 101, 100, 32, 107, 101, 121, 119, 111, 114, 100, 32, 97, 116, 32, 115, 116, 97, 114, 116, 32, 111, 102, 32, 39>> \o command \o <<39, 46>>
\* "Unrecognized command '{command}'"
MsgUnrecognizedCommand(command) == <<85, 110, 114, 101, 99, 111, 103, 110, 105, 122, 101, 100, 32, 99, 111, 109, 109, 97, 110, 100, 32, 39>> \o command \o <<39>>

StartsWith(s, p) == Len(s) >= Len(p) /\ SubSeq(s, 1, Len(p)) = p

RECURSIVE TrimEnd(_)
TrimEnd(s) == IF Len(s) > 0 /\ IsWs(s[Len(s)]) THEN TrimEnd(SubSeq(s, 1, Len(s) - 1)) ELSE s

\* read_input: the line read, trimmed (at the end of the input the line is empty)
Trim(line) == LET t == TrimEnd(line) IN SubSeq(t, Scan(t, 1, FALSE), Len(t))

\* prepare_statement
prepare_statement(input_buffer) ==
    IF StartsWith(input_buffer, kw_insert)
    THEN LET r == from_str(SubSeq(input_buffer, Len(kw_insert) + 1, Len(input_buffer)))
         IN [ok |-> r.ok, err |-> r.err, kind |-> "insert", row |-> r.row]
    ELSE IF StartsWith(input_buffer, kw_select)
    THEN [ok |-> TRUE, err |-> "none", kind |-> "select", row |-> NoRow]
    ELSE [ok |-> FALSE, err |-> "UnrecognizedStatement", kind |-> "none", row |-> NoRow]

\* do_meta_command
do_meta_command(command) == IF command = kw_exit THEN "Exit" ELSE "UnrecognizedCommand"

\* the message run writes for a statement that prepare_statement rejects
PrepareMessage(err, command) ==
    IF err = "SyntaxError" THEN MsgSyntaxError
    ELSE IF err = "StringTooLong" THEN MsgStringTooLong
    ELSE MsgUnrecognizedKeyword(command)

(***************************************************************************)
(* The input lines the model feeds to a session.  The insert line that    *)
(* session s types when the table holds k rows carries a row that differs  *)
(* from the row of every other (s, k), so that a row that is lost, moved,  *)
(* overwritten or duplicated shows.  The row typed at k = 1 has a username *)
(* of 32 bytes and the row typed at k = 2 an email of 255 bytes.           *)
(***************************************************************************)
Letter(k) == 97 + (k % 26)
RowId(s, k) == <<s, 255 + k>>
RowUsername(k) ==
    IF k = 1 THEN [i \in 1..USERNAME_SIZE |-> Letter(i + k)] ELSE <<117, Letter(k)>>
RowEmail(k) ==
    IF k = 2 THEN [i \in 1..EMAIL_SIZE |-> Letter(i + k)] ELSE <<101, 64, Letter(k)>>
\* "insert <id> <username> <email>"
InsertLine(s, k) ==
    kw_insert \o <<32>> \o U32ToDec(RowId(s, k)) \o <<32>> \o RowUsername(k)
        \o <<32>> \o RowEmail(k)

\* "select" with its line end
SelectLines == {kw_select \o <<13, 10>>}
\* ".exit" with its line end
ExitLines == {kw_exit \o <<10>>}
\* a blank line (at the end of the input read_line leaves the empty line)
BlankLines == {<<32, 10>>}
\* ".tables"
MetaLines == {<<46, 116, 97, 98, 108, 101, 115>>}
\* "insert", "insert 1 <33 bytes> e", "update"
RejectedLines ==
    {kw_insert,
     kw_insert \o <<32, 49, 32>> \o [i \in 1..(USERNAME_SIZE + 1) |-> 97] \o <<32, 101>>,
     <<117, 112, 100, 97, 116, 101>>}

(***************************************************************************)
(* State.                                                                  *)
(***************************************************************************)
VARIABLES
    file,        \* the backing file: [len, data]
    pc,          \* "idle": no session runs; "loop": run is in its loop
    result,      \* how the latest run ended: "none", "ok", "err", "panic"
    row_count,   \* Table.row_count
    pages,       \* Pager.pages
    pos,         \* the position of Pager.file
    command,     \* the command of the latest iteration of the loop
    out,         \* the lines the latest iteration of the loop wrote (prompt aside)
    last,        \* what the latest iteration of the loop was
    sessions,    \* the number of runs started
    openFile,    \* history: the file when the session opened it
    openCount,   \* history: row_count when the session opened
    sessRows,    \* history: the rows inserted by the session, in order
    durable,     \* history: position -> the row an insert put there and a completed close wrote
    closedCount, \* history: row_count at the latest completed close
    ops          \* history: the calls the session's close made on the file

vars == <<file, pc, result, row_count, pages, pos, command, out, last, sessions,
          openFile, openCount, sessRows, durable, closedCount, ops>>

table == <<row_count, pages, pos>>
history == <<openFile, openCount, sessRows, durable, closedCount, ops>>

EmptyFile == [len |-> 0, data |-> EmptyBytes]

Init ==
    /\ file = EmptyFile
    /\ pc = "idle"
    /\ result = "none"
    /\ row_count = 0
    /\ pages = <<>>
    /\ pos = 0
    /\ command = <<>>
    /\ out = <<>>
    /\ last = "none"
    /\ sessions = 0
    /\ openFile = EmptyFile
    /\ openCount = 0
    /\ sessRows = <<>>
    /\ durable = EmptyBytes
    /\ closedCount = 0
    /\ ops = <<>>

\* run returns: the table is dropped
Return(res) ==
    /\ pc' = "idle"
    /\ result' = res
    /\ row_count' = 0
    /\ pages' = <<>>
    /\ pos' = 0

\* run, up to its loop: Table::new
OpenStep(maxSessions) ==
    /\ pc = "idle"
    /\ sessions < maxSessions
    /\ pc' = "loop"
    /\ sessions' = sessions + 1
    /\ pages' = PagerNew(file)
    /\ pos' = 0
    /\ row_count' = TableNewRowCount(file)
    /\ command' = <<>>
    /\ out' = <<>>
    /\ last' = "open"
    /\ openFile' = file
    /\ openCount' = TableNewRowCount(file)
    /\ sessRows' = <<>>
    /\ ops' = <<>>
    /\ UNCHANGED <<file, result, durable, closedCount>>

\* an iteration of the loop on an empty command: continue
BlankStep(lines) ==
    /\ pc = "loop"
    /\ \E line \in lines :
          /\ Trim(line) = <<>>
          /\ command' = <<>>
          /\ out' = <<>>
          /\ last' = "blank"
    /\ UNCHANGED <<file, pc, result, table, sessions, history>>

\* an iteration on a meta command other than .exit
MetaStep(lines) ==
    /\ pc = "loop"
    /\ \E line \in lines :
          /\ Trim(line) # <<>>
          /\ Trim(line)[1] = 46
          /\ do_meta_command(Trim(line)) = "UnrecognizedCommand"
          /\ command' = Trim(line)
          /\ out' = <<MsgUnrecognizedCommand(Trim(line))>>
          /\ last' = "UnrecognizedCommand"
    /\ UNCHANGED <<file, pc, result, table, sessions, history>>

\* an iteration on .exit: table.close()?; return Ok(())
ExitStep(lines, ios) ==
    /\ pc = "loop"
    /\ \E line \in lines, io \in ios :
          LET c == close(row_count, pages, file, io) IN
          /\ Trim(line) # <<>>
          /\ Trim(line)[1] = 46
          /\ do_meta_command(Trim(line)) = "Exit"
          /\ command' = Trim(line)
          /\ file' = c.file
          /\ ops' = c.ops
          /\ Return(c.status)
          /\ out' = <<>>
          /\ last' = "exit"
          /\ IF c.status = "ok"
             THEN /\ closedCount' = row_count
                  /\ durable' = [i \in DOMAIN durable \cup (openCount..(row_count - 1)) |->
                                    IF i >= openCount THEN sessRows[i - openCount + 1]
                                    ELSE durable[i]]
             ELSE UNCHANGED <<closedCount, durable>>
    /\ UNCHANGED <<sessions, openFile, openCount, sessRows>>

\* faulty variant: a rejected statement ends the session: run returns in place of continue
RejectStepReturns(lines) ==
    /\ pc = "loop"
    /\ \E line \in lines :
          LET p == prepare_statement(Trim(line)) IN
          /\ Trim(line) # <<>>
          /\ Trim(line)[1] # 46
          /\ ~p.ok
          /\ command' = Trim(line)
          /\ out' = <<PrepareMessage(p.err, Trim(line))>>
          /\ last' = p.err
    /\ Return("err")
    /\ UNCHANGED <<file, sessions, history>>

\* an iteration on a statement that prepare_statement rejects
RejectStep(lines) ==
    /\ pc = "loop"
    /\ \E line \in lines :
          LET p == prepare_statement(Trim(line)) IN
          /\ Trim(line) # <<>>
          /\ Trim(line)[1] # 46
          /\ ~p.ok
          /\ command' = Trim(line)
          /\ out' = <<PrepareMessage(p.err, Trim(line))>>
          /\ last' = p.err
    /\ UNCHANGED <<file, pc, result, table, sessions, history>>

\* an iteration on an insert statement: execute_statement -> Table::insert
InsertStep(lines, maxRows, ios) ==
    /\ pc = "loop"
    /\ row_count < maxRows
    /\ \E line \in lines, io \in ios :
          LET p == prepare_statement(Trim(line))
              t == insert(row_count, pages, pos, file, p.row, io)
          IN
          /\ Trim(line) # <<>>
          /\ Trim(line)[1] # 46
          /\ p.ok
          /\ p.kind = "insert"
          /\ command' = Trim(line)
          /\ out' = <<>>
          /\ last' = "insert"
          /\ file' = t.file
          /\ IF t.err
             THEN /\ Return("err")
                  /\ UNCHANGED sessRows
             ELSE /\ row_count' = t.row_count
                  /\ pages' = t.pages
                  /\ pos' = t.pos
                  /\ sessRows' = Append(sessRows, p.row)
                  /\ UNCHANGED <<pc, result>>
    /\ UNCHANGED <<sessions, openFile, openCount, durable, closedCount, ops>>

\* an iteration on a select statement: execute_statement -> Table::select
SelectStep(lines, ios) ==
    /\ pc = "loop"
    /\ \E line \in lines, io \in ios :
          LET p == prepare_statement(Trim(line))
              t == select(row_count, pages, pos, file, io)
          IN
          /\ Trim(line) # <<>>
          /\ Trim(line)[1] # 46
          /\ p.ok
          /\ p.kind = "select"
          /\ command' = Trim(line)
          /\ out' = t.lines
          /\ last' = "select"
          /\ IF t.err
             THEN Return("err")
             ELSE /\ pages' = t.pages
                  /\ pos' = t.pos
                  /\ UNCHANGED <<pc, result, row_count>>
    /\ UNCHANGED <<file, sessions, history>>

\* print_prompt or read_input fails (as does a writeln! of the loop): run returns
\* the error through ?, the table is dropped unclosed
IoErrorStep ==
    /\ pc = "loop"
    /\ Return("err")
    /\ command' = <<>>
    /\ out' = <<>>
    /\ last' = "ioerror"
    /\ UNCHANGED <<file, sessions, history>>

\* an iteration at the end of the input: read_line reads no byte and leaves the
\* buffer empty, so the command is empty: continue
EofStep ==
    /\ pc = "loop"
    /\ command' = <<>>
    /\ out' = <<>>
    /\ last' = "eof"
    /\ UNCHANGED <<file, pc, result, table, sessions, history>>

(***************************************************************************)
(* Spec: up to MaxSessions sessions over one file, each typing any of the  *)
(* lines above, a table holding up to MaxRows rows.  The prompt and the    *)
(* input may fail; the calls on the file succeed (SpecIo has them fail).   *)
(***************************************************************************)
Open == OpenStep(MaxSessions)
Blank == BlankStep(BlankLines)
Meta == MetaStep(MetaLines)
Exit == ExitStep(ExitLines, {NoFault})
Reject == RejectStep(RejectedLines)
Insert == InsertStep({InsertLine(sessions, row_count)}, MaxRows, {NoFault})
Select == SelectStep(SelectLines, {NoFault})
IoError == IoErrorStep

Next == Open \/ Blank \/ Meta \/ Exit \/ Reject \/ Insert \/ Select \/ IoError

Spec == Init /\ [][Next]_vars

(***************************************************************************)
(* SpecDeep: one session that inserts up to DeepRows rows into the empty   *)
(* file and closes, then a session that selects and closes.                *)
(***************************************************************************)
DeepOpen == OpenStep(DeepSessions)
DeepInsert == sessions = 1 /\ InsertStep({InsertLine(sessions, row_count)}, DeepRows, {NoFault})
DeepSelect == sessions = 2 /\ SelectStep(SelectLines, {NoFault})
DeepExit == ExitStep(ExitLines, {NoFault})

DeepNext == DeepOpen \/ DeepInsert \/ DeepSelect \/ DeepExit

SpecDeep == Init /\ [][DeepNext]_vars

(***************************************************************************)
(* SpecIo: up to IoSessions sessions over one file, a table holding up to  *)
(* IoRows rows, in which any call that an insert, a select or a close      *)
(* makes on the file may return an error; no session follows one that      *)
(* ended in an error.                                                      *)
(***************************************************************************)
\* what the calls on the file may do during n calls: all succeed, or one of them fails
FailingCall(n) == {NoFault} \cup {[calls |-> k, part |-> 0] : k \in 0..(n - 1)}
\* an insert calls get_page once
InsertFaults == FailingCall(GetPageCalls)
\* a select calls get_page for every page that holds a row
SelectFaults == FailingCall(GetPageCalls * DivCeil(row_count, ROWS_PER_PAGE))
\* a close makes the calls of its log; a write_all that fails wrote none, a part
\* or all of its bytes
CloseFaults ==
    LET calls == close(row_count, pages, file, NoFault).ops
    IN {NoFault} \cup
       {io \in {[calls |-> k - 1, part |-> p] : k \in DOMAIN calls, p \in 0..PartsOf} :
           io.part = 0 \/ calls[io.calls + 1].call = "write_all"}

IoOpen == result # "err" /\ OpenStep(IoSessions)
IoInsert == InsertStep({InsertLine(sessions, row_count)}, IoRows, InsertFaults)
IoSelect == SelectStep(SelectLines, SelectFaults)
IoExit == ExitStep(ExitLines, CloseFaults)

IoNext == IoOpen \/ IoInsert \/ IoSelect \/ IoExit

SpecIo == Init /\ [][IoNext]_vars

(***************************************************************************)
(* SpecEof: sessions whose input is finite: any iteration may find the     *)
(* input at its end, and every iteration after that one finds it so.  The  *)
(* loop takes its next iteration whenever it can.                          *)
(***************************************************************************)
EofOpen == OpenStep(MaxSessions)
EofInsert == last # "eof" /\ InsertStep({InsertLine(sessions, row_count)}, MaxRows, {NoFault})
EofSelect == last # "eof" /\ SelectStep(SelectLines, {NoFault})
EofExit == last # "eof" /\ ExitStep(ExitLines, {NoFault})
Eof == EofStep

EofNext == EofOpen \/ EofInsert \/ EofSelect \/ EofExit \/ Eof

SpecEof == Init /\ [][EofNext]_vars /\ WF_vars(EofNext)

(***************************************************************************)
(* SpecParse: the first command of a session over the empty file, drawn    *)
(* from insert lines made of up to four fields, and a select after an      *)
(* insert that was accepted.                                               *)
(***************************************************************************)
\* the text of n bytes that starts with the letter of k
TextOf(n, k) == [i \in 1..n |-> Letter(i + k)]

\* id fields with their value: "1", "4294967295", "+7", "007"
ValidIds ==
    {[tok |-> <<49>>, val |-> <<0, 1>>],
     [tok |-> <<52, 50, 57, 52, 57, 54, 55, 50, 57, 53>>, val |-> <<65535, 65535>>],
     [tok |-> <<43, 55>>, val |-> <<0, 7>>],
     [tok |-> <<48, 48, 55>>, val |-> <<0, 7>>]}
ValidIdToks == {v.tok : v \in ValidIds}
\* id fields that are no u32: "4294967296", "-1", "1x", "+"
InvalidIdToks ==
    {<<52, 50, 57, 52, 57, 54, 55, 50, 57, 54>>, <<45, 49>>, <<49, 120>>, <<43>>}
IdToks == ValidIdToks \cup InvalidIdToks
UsernameToks == {TextOf(n, 0) : n \in {1, USERNAME_SIZE, USERNAME_SIZE + 1, USERNAME_SIZE + 8}}
EmailToks == {TextOf(n, 4) : n \in {1, EMAIL_SIZE, EMAIL_SIZE + 1}}
\* the fields of a line: none, id, id username, id username email, and a fourth
FieldSeqs ==
    {<<>>}
    \cup {<<i>> : i \in IdToks}
    \cup {<<i, u>> : i \in IdToks, u \in UsernameToks}
    \cup {<<i, u, e>> : i \in IdToks, u \in UsernameToks, e \in EmailToks}
    \cup {<<i, u, e, <<120>>>> : i \in IdToks, u \in UsernameToks, e \in EmailToks}

RECURSIVE JoinFields(_)
\* the fields, each after a space (the third after a tab and a space)
JoinFields(fields) ==
    IF fields = <<>> THEN <<>>
    ELSE JoinFields(SubSeq(fields, 1, Len(fields) - 1))
            \o (IF Len(fields) = 3 THEN <<9, 32>> ELSE <<32>>) \o fields[Len(fields)]

\* "insert <fields>" with its line end
FieldLine(fields) == kw_insert \o JoinFields(fields) \o <<10>>
ParseLines == {FieldLine(f) : f \in FieldSeqs}

ParseOpen == OpenStep(MaxSessions)
ParseInsert == last = "open" /\ InsertStep(ParseLines, MaxRows, {NoFault})
ParseReject == last = "open" /\ RejectStep(ParseLines)
ParseSelect == last = "insert" /\ SelectStep(SelectLines, {NoFault})

\* lines that are no command of the surface: "selectx", "select *", "insert1 a b",
\* "inserted", "Select"
OtherLines ==
    {kw_select \o <<120>>,
     kw_select \o <<32, 42>>,
     kw_insert \o <<49, 32, 97, 32, 98>>,
     kw_insert \o <<101, 100>>,
     <<83, 101, 108, 101, 99, 116>>}
ParseOtherInsert == last = "open" /\ InsertStep(OtherLines, MaxRows, {NoFault})
ParseOtherSelect == last = "open" /\ SelectStep(OtherLines, {NoFault})
ParseOtherReject == last = "open" /\ RejectStep(OtherLines)

ParseNext ==
    \/ ParseOpen \/ ParseInsert \/ ParseReject \/ ParseSelect
    \/ ParseOtherInsert \/ ParseOtherSelect \/ ParseOtherReject

SpecParse == Init /\ [][ParseNext]_vars

(***************************************************************************)
(* Properties.                                                             *)
(***************************************************************************)
\* where Table::close writes row i: page i div 14 at i div 14 * 4096, slot i mod 14
RowFileOffset(i) == (i \div ROWS_PER_PAGE) * Pager_SIZE + (i % ROWS_PER_PAGE) * Row_SIZE

\* the session selected and the select returned Ok
Selected == pc = "loop" /\ last = "select"
\* the session ended by .exit and close returned Ok
Closed == pc = "idle" /\ last = "exit" /\ result = "ok"

\* C1: a row that an insert put at position i and a completed close wrote is shown
\* at position i, with the same id, username and email, by every select of every
\* later session, and the file after every later completed close holds the row's
\* bytes where they were written.
C1_StoredRowsKept ==
    /\ Selected =>
          \A i \in DOMAIN durable :
              i < Len(out) /\ out[i + 1] = Display(durable[i])
    /\ Closed =>
          \A i \in DOMAIN durable :
              Slice(file.data, RowFileOffset(i), Row_SIZE) = EncodeRow(durable[i])

\* C4: after a completed close of a table with n rows the file length is a multiple
\* of 291 and row i, for every i < n that an insert wrote, is at bytes
\* [i * 291, i * 291 + 291) of the file.
C4_FlatFile ==
    Closed =>
        /\ file.len % Row_SIZE = 0
        /\ \A i \in DOMAIN durable :
              i < closedCount =>
                  Slice(file.data, i * Row_SIZE, Row_SIZE) = EncodeRow(durable[i])

\* C5: every select of a session writes row_count lines, the last k of them the
\* k rows the session inserted so far, in the order of their insertion and with
\* the field values inserted.
C5_ReadYourWrites ==
    Selected =>
        /\ Len(out) = row_count
        /\ Len(sessRows) <= row_count
        /\ \A j \in 1..Len(sessRows) :
              out[row_count - Len(sessRows) + j] = Display(sessRows[j])

\* a select that follows inserts into a page the session loaded from a file of two
\* pages, after a select of the stored rows
C5_Witness ==
    /\ Selected
    /\ sessions = 2
    /\ openCount > ROWS_PER_PAGE
    /\ Len(sessRows) >= 2
    /\ row_count = openCount + Len(sessRows)

\* C6: while a session is in its loop the file has the length and the bytes it had
\* when the session opened it, and so it has after a session that ends unclosed.
C6_FileUntouchedBeforeClose ==
    (pc = "loop" \/ last \in {"ioerror", "insert", "select"}) => file = openFile

\* a session over stored rows that inserted and then ended without close
C6_Witness ==
    /\ pc = "idle"
    /\ last = "ioerror"
    /\ Len(sessRows) > 0
    /\ openFile.len > 0
    /\ file = openFile

\* C9: every row the session inserted, at whatever index i, decodes from slot
\* i mod 14 of page i div 14 with its id and its username and email buffers.
C9_CodecRoundTrip ==
    pc = "loop" =>
        \A j \in 1..Len(sessRows) :
            LET d == deserialize_row(pages, pos, file, openCount + j - 1, NoFault)
            IN ~d.err /\ d.row = sessRows[j]

\* rows inserted in the last slot of page 0 and the first of page 1, and rows with
\* a full username buffer and a full email buffer
C9_Witness ==
    /\ pc = "loop"
    /\ openCount = 0
    /\ Len(sessRows) > ROWS_PER_PAGE
    /\ FirstZero(sessRows[2].username, USERNAME_SIZE) = USERNAME_SIZE
    /\ FirstZero(sessRows[3].email, EMAIL_SIZE) = EMAIL_SIZE

\* the iteration was on a command rejected before execution
RejectedKinds == {"SyntaxError", "StringTooLong", "UnrecognizedStatement", "UnrecognizedCommand"}

\* C10: an iteration on a rejected command leaves row_count, the pages and the file
\* as they were and the session in its loop, where it reads the next command.
C10_RejectedCommandFrame ==
    [][last' \in RejectedKinds =>
          /\ row_count' = row_count
          /\ pages' = pages
          /\ file' = file
          /\ pc' = "loop"]_vars

\* a command was rejected in a session that holds inserted rows in a loaded page
C10_Witness ==
    /\ pc = "loop"
    /\ last = "StringTooLong"
    /\ Len(sessRows) > 0
    /\ row_count > openCount

\* the second session of SpecDeep selected, the first having closed its n rows
DeepSelected == Selected /\ sessions = 2 /\ result = "ok"

\* C2: n >= 1 rows inserted into a table over the empty file and closed are, after
\* the file is opened again, the lines of select: the n rows, in insertion order,
\* and no other line.
C2_PersistenceRoundTrip ==
    (DeepSelected /\ closedCount >= 1) =>
        out = [i \in 1..closedCount |-> Display(durable[i - 1])]

\* C3: when a session opens a file that a completed close of n rows produced, the
\* file length is a multiple of 291 and row_count is n.
C3_RowCountAtOpen ==
    (pc = "loop" /\ last = "open" /\ result = "ok") =>
        /\ file.len % Row_SIZE = 0
        /\ row_count = closedCount

\* the fields of the command of the latest iteration, when it is a line of SpecParse
IsCommandOf(fields) == command = Trim(FieldLine(fields))
\* the iteration parsed an insert line: it was rejected or it inserted
Parsed == pc = "loop" /\ last \in {"insert", "SyntaxError", "StringTooLong"}

\* C7: of an insert with a valid id, parse accepts the one whose username is at most
\* 32 bytes and whose email is at most 255 bytes, and the row inserted holds the id
\* and the two fields; it answers StringTooLong, with no row added, when the
\* username is 33 bytes or longer or the email is 256 bytes or longer; and select
\* shows a username of 32 bytes in full, followed by the space before the email.
C7_LengthBoundary ==
    /\ Parsed =>
          \A f \in FieldSeqs : \A v \in ValidIds :
              (IsCommandOf(f) /\ Len(f) >= 2 /\ f[1] = v.tok) =>
                  /\ (Len(f) >= 3 /\ Len(f[2]) <= 32 /\ Len(f[3]) <= 255) =>
                        /\ last = "insert"
                        /\ row_count = 1
                        /\ sessRows = <<[id |-> v.val, username |-> FromSeq(f[2]),
                                         email |-> FromSeq(f[3])]>>
                  /\ (Len(f[2]) >= 33 \/ (Len(f) >= 3 /\ Len(f[3]) >= 256)) =>
                        /\ last = "StringTooLong"
                        /\ row_count = 0
                        /\ pages = <<>>
                        /\ sessRows = <<>>
    /\ (Selected /\ Len(sessRows) = 1) =>
          LET r == sessRows[1]
              n == Len(U32ToDec(r.id))
          IN (\A i \in 0..31 : Get(r.username, i) # 0) =>
                /\ Len(out) = 1
                /\ Len(out[1]) >= n + 35
                /\ SubSeq(out[1], n + 3, n + 34) = ToSeq(r.username, 32)
                /\ out[1][n + 35] = 32

\* an insert with a username of 32 bytes and an email of 255 bytes was accepted and
\* selected
C7_Witness ==
    /\ Selected
    /\ Len(sessRows) = 1
    /\ \A i \in 0..31 : Get(sessRows[1].username, i) # 0
    /\ \A i \in 0..254 : Get(sessRows[1].email, i) # 0
    /\ Len(out) = 1

\* C8: parse answers SyntaxError whenever one of id, username, email is missing or
\* id is no unsigned 32-bit integer, a present field being over its length or not.
C8_SyntaxErrorWhenever ==
    Parsed =>
        \A f \in FieldSeqs :
            (IsCommandOf(f) /\ (Len(f) < 3 \/ f[1] \in InvalidIdToks)) =>
                last = "SyntaxError"

\* C8 as amended: parse answers SyntaxError whenever id is missing or is no unsigned
\* 32-bit integer, or username is missing, or email is missing and username is at
\* most 32 bytes; with a valid id, a username over 32 bytes and no email it answers
\* StringTooLong.
C8_SyntaxErrorInFieldOrder ==
    Parsed =>
        \A f \in FieldSeqs :
            IsCommandOf(f) =>
                /\ (Len(f) < 2 \/ f[1] \in InvalidIdToks \/ (Len(f) = 2 /\ Len(f[2]) <= 32)) =>
                      /\ last = "SyntaxError"
                      /\ row_count = 0
                /\ (Len(f) = 2 /\ f[1] \in ValidIdToks /\ Len(f[2]) > 32) =>
                      /\ last = "StringTooLong"
                      /\ row_count = 0

\* lines were rejected with SyntaxError for an id that is no u32 beside a username
\* over its length
C8_Witness ==
    /\ Parsed
    /\ last = "SyntaxError"
    /\ \E f \in FieldSeqs :
          /\ IsCommandOf(f)
          /\ Len(f) >= 2
          /\ f[1] \in InvalidIdToks
          /\ Len(f[2]) > 32

(***************************************************************************)
(* Claims checked under SpecIo and Spec: the pager and the table.          *)
(***************************************************************************)
\* the row of the insert line that the session types next
NextRow == prepare_statement(InsertLine(sessions, row_count)).row

\* C11: whatever call on the file fails or not, an insert at row_count = n either
\* returns the error of get_page with row_count still n, every page buffer and the
\* file as they were, or returns success with row_count = n + 1 and the 291 bytes
\* of the row in slot n mod 14 of page n div 14; when run returns on the error,
\* it reports it.
C11_InsertAllOrNothing ==
    /\ pc = "loop" =>
          \A io \in InsertFaults :
              LET n == row_count
                  t == insert(row_count, pages, pos, file, NextRow, io)
              IN IF t.err
                 THEN /\ t.row_count = n
                      /\ \A p \in 1..Len(pages) : t.pages[p] = pages[p]
                      /\ \A p \in (Len(pages) + 1)..Len(t.pages) : ~t.pages[p].some
                      /\ t.file = file
                 ELSE /\ t.row_count = n + 1
                      /\ Slice(t.pages[n \div ROWS_PER_PAGE + 1].buf,
                               (n % ROWS_PER_PAGE) * Row_SIZE, Row_SIZE) = EncodeRow(NextRow)
    /\ (pc = "idle" /\ last = "insert") => (result = "err" /\ file = openFile)

\* an insert failed on the page it asked for, in a session that opened a file
\* holding rows and had inserted rows itself
C11_Witness ==
    /\ pc = "idle"
    /\ last = "insert"
    /\ result = "err"
    /\ openCount > 0
    /\ Len(sessRows) > 0

\* the bytes of file f that page index holds: up to 4096 from offset index * 4096
FileBytesOfPage(f, index) ==
    Slice(f.data, index * Pager_SIZE,
          Min2(Pager_SIZE, SaturatingSub(f.len, index * Pager_SIZE)))

\* page index was not loaded before the step and is loaded after it
FirstTouched(index) ==
    /\ index < Len(pages')
    /\ pages'[index + 1].some
    /\ (index >= Len(pages) \/ ~pages[index + 1].some)

\* C12: a page within the file's extent that a select or an insert touches first
\* holds the bytes of the file from offset index * 4096 on, the rest zero (under
\* the row the insert put into it), whatever was read before.
C12_FirstTouchReadsOwnOffset ==
    [][(pc' = "loop" /\ last' \in {"select", "insert"}) =>
          \A index \in 0..(Len(pages') - 1) :
              (FirstTouched(index) /\ index * Pager_SIZE < file.len) =>
                  pages'[index + 1].buf =
                      IF last' = "insert"
                      THEN CopyFromSlice(FileBytesOfPage(file, index),
                                         (row_count % ROWS_PER_PAGE) * Row_SIZE, Row_SIZE,
                                         EncodeRow(NextRow))
                      ELSE FileBytesOfPage(file, index)]_vars

\* C13: a close, reached by open, insert and select over a file that completed
\* closes wrote, ends in success or in an I/O error: it never panics, flush_page
\* being a no-op on every page that was never loaded, tracked or not.
C13_CloseNeverPanics ==
    (pc = "idle" /\ last = "exit") => result \in {"ok", "err"}

\* the write_all calls of a log
WritesOf(log) == SelectSeq(log, LAMBDA c : c.call = "write_all")

\* the page writes that a close with row_count = n owes: every loaded page below
\* n div 14 in full, then page n div 14, if loaded, at (n mod 14) * 291 bytes
OwedWrites(n, pgs) ==
    SelectSeq([i \in 1..(n \div ROWS_PER_PAGE + 1) |->
                  [index |-> i - 1,
                   at |-> (i - 1) * Pager_SIZE,
                   size |-> IF i - 1 < n \div ROWS_PER_PAGE THEN Pager_SIZE
                            ELSE (n % ROWS_PER_PAGE) * Row_SIZE]],
              LAMBDA w : w.size > 0 /\ w.index < Len(pgs) /\ pgs[w.index + 1].some)

\* the offset after the last row of a table of n rows
EndOfRows(n) == Pager_SIZE * (n \div ROWS_PER_PAGE) + Row_SIZE * (n % ROWS_PER_PAGE)

\* C14: a close with row_count = n issues the writes it owes, in order and at
\* their sizes (all of them when it succeeds, the first of them when a call
\* fails), each after a seek to index * 4096, and changes no byte of the file at
\* or beyond offset 4096 * (n div 14) + 291 * (n mod 14).
C14_FlushAccounting ==
    [][last' = "exit" =>
          LET n == row_count
              w == WritesOf(ops')
              owed == OwedWrites(n, pages)
          IN /\ Len(w) <= Len(owed)
             /\ result' = "ok" => Len(w) = Len(owed)
             /\ \A i \in DOMAIN w : w[i].at = owed[i].at /\ w[i].size = owed[i].size
             /\ \A i \in DOMAIN ops' :
                    ops'[i].call = "write_all" =>
                        /\ i > 1
                        /\ ops'[i - 1] = SeekCall(ops'[i].at, TRUE)
                        /\ ops'[i].at + ops'[i].size <= EndOfRows(n)
             /\ file'.len <= Max2(file.len, EndOfRows(n))
             /\ \A x \in (DOMAIN file.data) \cup (DOMAIN file'.data) :
                    x >= EndOfRows(n) => Get(file'.data, x) = Get(file.data, x)]_vars

\* a close completed with 15 rows: page 0 written in full, page 1 at 291 bytes
C14_Witness ==
    /\ Closed
    /\ closedCount = ROWS_PER_PAGE + 1
    /\ WritesOf(ops) = <<WriteCall(0, Pager_SIZE, TRUE), WriteCall(Pager_SIZE, Row_SIZE, TRUE)>>
    /\ file.len = Pager_SIZE + Row_SIZE

\* C15: a close that returns success has called sync_all once, as its last call
\* on the file, after every seek and write_all, all of which succeeded; a close
\* in which a seek, a write_all or the sync_all fails returns the error, and
\* after a failing seek or write_all it calls nothing more.
C15_SyncAfterWrites ==
    (pc = "idle" /\ last = "exit") =>
        /\ result = "ok" =>
              /\ Len(ops) > 0
              /\ ops[Len(ops)] = SyncCall(TRUE)
              /\ \A i \in 1..(Len(ops) - 1) : ops[i].call # "sync_all" /\ ops[i].ok
        /\ \A i \in DOMAIN ops :
              ~ops[i].ok => (result = "err" /\ i = Len(ops))
        /\ \A i \in DOMAIN ops :
              ops[i].call = "sync_all" => i = Len(ops)

\* a close wrote page 0, failed in the write_all of page 1 and returned the error
C15_Witness ==
    /\ pc = "idle"
    /\ last = "exit"
    /\ result = "err"
    /\ Len(ops) = 4
    /\ ops[2] = WriteCall(0, Pager_SIZE, TRUE)
    /\ ops[4] = WriteCall(Pager_SIZE, Row_SIZE, FALSE)

\* the pages that the step loaded
NewlyLoaded == {index \in 0..(Len(pages') - 1) : FirstTouched(index)}

\* the pages that the command of the step calls get_page on
Touched ==
    IF last' = "insert" THEN {row_count \div ROWS_PER_PAGE}
    ELSE IF last' = "select" THEN 0..(DivCeil(row_count, ROWS_PER_PAGE) - 1)
    ELSE {}

RECURSIVE BytesRead(_, _)
\* the bytes that loading the pages S of file f reads
BytesRead(f, S) ==
    IF S = {} THEN 0
    ELSE LET index == CHOOSE x \in S : TRUE
         IN Min2(Pager_SIZE, SaturatingSub(f.len, index * Pager_SIZE))
            + BytesRead(f, S \ {index})

\* C16: after open no page is loaded; a step of the session loads only pages
\* that its command calls get_page on; the file is read for the pages the step
\* loads and for no other, so for each page once; a loaded page stays loaded and
\* its buffer changes only by the row an insert puts into it.
C16_LazyLoading ==
    [][pc' = "loop" =>
          /\ last' = "open" => \A p \in DOMAIN pages' : ~pages'[p].some
          /\ pc = "loop" =>
                /\ NewlyLoaded \subseteq Touched
                /\ pos' = pos + BytesRead(file, NewlyLoaded)
                /\ \A index \in 0..(Len(pages) - 1) :
                       pages[index + 1].some =>
                           /\ pages'[index + 1].some
                           /\ pages'[index + 1].buf =
                                  IF last' = "insert" /\ index = row_count \div ROWS_PER_PAGE
                                  THEN CopyFromSlice(pages[index + 1].buf,
                                           (row_count % ROWS_PER_PAGE) * Row_SIZE, Row_SIZE,
                                           EncodeRow(NextRow))
                                  ELSE pages[index + 1].buf]_vars

\* a session over a file of two pages inserted into page 1, then selected: both
\* pages are loaded, page 1 was touched twice, and the file was read once through
C16_Witness ==
    /\ Selected
    /\ openFile.len > Pager_SIZE
    /\ Len(sessRows) > 0
    /\ Len(pages) = 2
    /\ pages[1].some /\ pages[2].some
    /\ pos = openFile.len

\* the bytes of the slot of row i within its page
SlotOf(i) == ((i % ROWS_PER_PAGE) * Row_SIZE)..((i % ROWS_PER_PAGE) * Row_SIZE + Row_SIZE - 1)

\* C19: in a step of a session row_count does not decrease; an insert at
\* row_count = n makes it n + 1, puts the row into the 291 bytes of slot n mod 14
\* of page n div 14, a range within the page that no other slot overlaps, and
\* leaves every other byte of every loaded page as it was; a select leaves
\* row_count and every loaded page as they were.
C19_InsertFrame ==
    [][(pc = "loop" /\ pc' = "loop") =>
          LET n == row_count
              page_num == n \div ROWS_PER_PAGE
          IN /\ row_count' >= n
             /\ last' = "insert" =>
                   /\ row_count' = n + 1
                   /\ SlotOf(n) \subseteq 0..(Pager_SIZE - 1)
                   /\ \A i \in 0..n : (i % ROWS_PER_PAGE # n % ROWS_PER_PAGE) =>
                          SlotOf(i) \cap SlotOf(n) = {}
                   /\ Slice(pages'[page_num + 1].buf, (n % ROWS_PER_PAGE) * Row_SIZE, Row_SIZE)
                          = EncodeRow(NextRow)
                   /\ \A index \in 0..(Len(pages) - 1) :
                          pages[index + 1].some =>
                              \A x \in (DOMAIN pages[index + 1].buf)
                                          \cup (DOMAIN pages'[index + 1].buf) :
                                  (index # page_num \/ x \notin SlotOf(n)) =>
                                      Get(pages'[index + 1].buf, x) = Get(pages[index + 1].buf, x)
             /\ last' = "select" =>
                   /\ row_count' = n
                   /\ \A index \in 0..(Len(pages) - 1) :
                          pages[index + 1].some => pages'[index + 1] = pages[index + 1]
             /\ last' \notin {"insert", "select"} => (row_count' = n /\ pages' = pages)]_vars

\* a session that opened a file holding rows filled page 0 and inserted into the
\* first slot of page 1
C19_Witness ==
    /\ pc = "loop"
    /\ last = "insert"
    /\ openCount > 0
    /\ row_count = ROWS_PER_PAGE + 1
    /\ Len(sessRows) >= 2

(***************************************************************************)
(* Claims about run.                                                       *)
(***************************************************************************)
\* C17: whenever run has returned, by .exit or on an I/O error, the command it
\* returned on was the close of the table.
C17_CloseOnEveryExit ==
    (pc = "idle" /\ sessions > 0) => last = "exit"

\* the command is the word insert followed by at least three fields
IsInsertCommand(c) ==
    LET p0 == NextPart(c)
        p1 == NextPart(p0.rest)
        p2 == NextPart(p1.rest)
        p3 == NextPart(p2.rest)
    IN p0.some /\ p0.tok = kw_insert /\ p1.some /\ p2.some /\ p3.some

\* C18: the loop calls Table::insert only on a command that is the word insert
\* followed by id, username and email fields, and Table::select only on the
\* command select; on every other command the table is as the session opened it.
C18_OnlySurfaceCommands ==
    pc = "loop" =>
        /\ last = "insert" => IsInsertCommand(command)
        /\ last = "select" => command = kw_select
        /\ (command # <<>> /\ ~IsInsertCommand(command) /\ command # kw_select) =>
              /\ row_count = openCount
              /\ \A p \in DOMAIN pages : ~pages[p].some

\* C20: run returns once its input is exhausted: the iteration that finds the
\* input at its end returns from run. (An iteration that does not return leaves
\* the table and the input as they were, so every later iteration is the same.)
C20_ReturnsAtEndOfInput ==
    [][last' = "eof" => pc' = "idle"]_vars

=============================================================================
